---- MODULE Spec2Model ----
(***************************************************************************)
(* Contacts service: user registration and login, JWT access and refresh   *)
(* tokens (src/src/handler.py, src/src/database/models.py,                 *)
(* src/src/router.py) and the contact repository (src/src/handler.py).     *)
(*                                                                         *)
(* Time is counted in whole seconds, the resolution of the exp claim of a  *)
(* token.  A Python dict is a function from its keys to its values, so a   *)
(* missing key is a key outside the DOMAIN.  None is the record None.      *)
(***************************************************************************)
EXTENDS Integers, Sequences, FiniteSets, TLC

VARIABLES
    users,        \* rows of table "users"
    user_seq,     \* last id the table "users" assigned
    contacts,     \* rows of table "contacts"
    contact_seq,  \* last id the table "contacts" assigned
    now,          \* the clock, datetime.utcnow(), in seconds
    held,         \* the token a client keeps from the last response, or None
    resp          \* the last request and its response

vars == <<users, user_seq, contacts, contact_seq, now, held, resp>>

None == [none |-> TRUE]

----------------------------------------------------------------------------
(* Bounds of the model *)

\* the clock runs over a few seconds around each of the two expiry instants
MaxSlack == 1
\* the largest explicit expires_delta, in seconds, given to a token function
MaxDelta == 1

----------------------------------------------------------------------------
(* Program constants *)

ACCESS_TOKEN_EXPIRE_MINUTES == 15
REFRESH_TOKEN_EXPIRE_DAYS == 30
SecondsPerMinute == 60
SecondsPerDay == 86400

\* the key in force when a request is served: the module-level assignment
\* from the environment replaces the literal of line 138 at import time
SECRET_KEY == "env:SECRET_KEY"
\* a key that is not the server's
OtherKey == "not the server's key"

timedelta(seconds) == [seconds |-> seconds]
AccessLifetime == timedelta(ACCESS_TOKEN_EXPIRE_MINUTES * SecondsPerMinute)
RefreshLifetime == timedelta(REFRESH_TOKEN_EXPIRE_DAYS * SecondsPerDay)

Emails == {"a@x.com", "b@x.com"}
Passwords == {"pw1", "pw2"}

ClockValues ==
    { a + b * AccessLifetime.seconds + c * RefreshLifetime.seconds :
        a \in 0..MaxSlack, b \in 0..1, c \in 0..1 }

----------------------------------------------------------------------------
(* Passwords: src/src/database/models.py *)

\* pwd_context.hash: a bcrypt digest, a value of its own kind that is never
\* the plaintext and that verifies only the plaintext it was made from
get_password_hash(password) == [bcrypt |-> password]

verify_password_NoCheck(plain_password, hashed_password) == TRUE

verify_password(plain_password, hashed_password) ==
    hashed_password = get_password_hash(plain_password)

\* db.query(User).filter(User.email == email).first()
get_user_by_email(db, email) ==
    IF \E u \in db : u.email = email
    THEN CHOOSE u \in db : u.email = email
    ELSE None

authenticate_user(db, email, password) ==
    LET user == get_user_by_email(db, email)
    IN  IF user = None THEN None
        ELSE IF ~verify_password(password, user.hashed_password) THEN None
        ELSE user

----------------------------------------------------------------------------
(* Tokens: src/src/handler.py *)

\* jose jwt.encode: the claims, signed with the key
jwt_encode(claims, key) == [payload |-> claims, sig |-> key]

\* a string that is no JWT
Malformed == [garbage |-> TRUE]

JWTError(kind) == [ok |-> FALSE, error |-> kind]

\* jose jwt.decode (handler.py): rejects a string that is no JWT, a signature
\* made with another key, and an exp claim that lies before the current second
jose_decode_NoExpiry(token, key, t) ==
    IF "payload" \notin DOMAIN token THEN JWTError("malformed")
    ELSE IF token.sig # key THEN JWTError("signature")
    ELSE [ok |-> TRUE, payload |-> token.payload]

jose_decode(token, key, t) ==
    IF "payload" \notin DOMAIN token THEN JWTError("malformed")
    ELSE IF token.sig # key THEN JWTError("signature")
    ELSE IF "exp" \in DOMAIN token.payload /\ token.payload.exp < t
         THEN JWTError("expired")
    ELSE [ok |-> TRUE, payload |-> token.payload]

\* PyJWT jwt.decode (router.py). PyJWT 1.x rejects exp < now, PyJWT 2.x
\* rejects exp <= now: strict says which one is installed
pyjwt_decode(token, key, t, strict) ==
    IF "payload" \notin DOMAIN token THEN JWTError("malformed")
    ELSE IF token.sig # key THEN JWTError("signature")
    ELSE IF "exp" \in DOMAIN token.payload
            /\ (token.payload.exp < t \/ (strict /\ token.payload.exp = t))
         THEN JWTError("expired")
    ELSE [ok |-> TRUE, payload |-> token.payload]

\* to_encode.update({"exp": expire})
WithExp(data, expire) ==
    [k \in DOMAIN data \cup {"exp"} |-> IF k = "exp" THEN expire ELSE data[k]]

\* bool(expires_delta): None and timedelta(0) are both false
Truthy(expires_delta) == expires_delta # None /\ expires_delta.seconds # 0

\* the access token given the lifetime of a refresh token
create_access_token_LongLived(data, expires_delta, t) ==
    jwt_encode(WithExp(data, t + RefreshLifetime.seconds), SECRET_KEY)

create_access_token(data, expires_delta, t) ==
    LET expire == IF Truthy(expires_delta)
                  THEN t + expires_delta.seconds
                  ELSE t + AccessLifetime.seconds
    IN  jwt_encode(WithExp(data, expire), SECRET_KEY)

create_refresh_token(data, expires_delta, t) ==
    LET expire == t + expires_delta.seconds
    IN  jwt_encode(WithExp(data, expire), SECRET_KEY)

HTTPException(status_code, detail) ==
    [status |-> status_code, detail |-> detail]

credentials_exception == HTTPException(401, "Could not validate credentials")

\* the outcome of get_current_user: the User row, or the exception raised
get_current_user(db, token, t) ==
    LET decoded == jose_decode(token, SECRET_KEY, t)
    IN  IF ~decoded.ok THEN credentials_exception
        ELSE IF "sub" \notin DOMAIN decoded.payload THEN credentials_exception
        ELSE LET user == get_user_by_email(db, decoded.payload.sub)
             IN  IF user = None THEN credentials_exception
                 ELSE [status |-> 200, user |-> user]

\* POST /contacts/token: the outcome of login_for_access_token
login_for_access_token(db, email, password, t) ==
    LET user == authenticate_user(db, email, password)
    IN  IF user = None
        THEN HTTPException(401, "Incorrect email or password")
        ELSE [status |-> 200,
              body |-> [access_token |->
                            create_access_token([sub |-> user.email], None, t),
                        refresh_token |->
                            create_refresh_token([sub |-> user.email],
                                                 RefreshLifetime, t),
                        token_type |-> "bearer"]]

refresh_token_SubjectUnchecked(db, token, t, strict) ==
    LET decoded == pyjwt_decode(token, SECRET_KEY, t, strict)
    IN  IF ~decoded.ok \/ "sub" \notin DOMAIN decoded.payload
        THEN HTTPException(401, "Invalid refresh token")
        ELSE [status |-> 200,
              body |-> [access_token |->
                            create_access_token(
                                [sub |-> decoded.payload.sub], None, t),
                        refresh_token |-> token,
                        token_type |-> "bearer"]]

\* POST /contacts/refresh: the outcome of refresh_token
refresh_token(db, token, t, strict) ==
    LET decoded == pyjwt_decode(token, SECRET_KEY, t, strict)
    IN  IF ~decoded.ok THEN HTTPException(401, "Invalid refresh token")
        ELSE IF "sub" \notin DOMAIN decoded.payload
             THEN HTTPException(401, "Invalid refresh token")
        ELSE LET user == get_user_by_email(db, decoded.payload.sub)
             IN  IF user = None
                 THEN HTTPException(401, "Invalid refresh token")
                 ELSE [status |-> 200,
                       body |-> [access_token |->
                                     create_access_token(
                                         [sub |-> user.email], None, t),
                                 refresh_token |-> token,
                                 token_type |-> "bearer"]]

create_user_NoDuplicateCheck(db, seq, email, password) ==
    [status |-> 200,
     user |-> [id |-> seq + 1, email |-> email,
               hashed_password |-> get_password_hash(password)]]

\* the outcome of create_user: the exception raised, or the row inserted
create_user(db, seq, email, password) ==
    IF get_user_by_email(db, email) # None
    THEN HTTPException(409, "Email already registered")
    ELSE [status |-> 200,
          user |-> [id |-> seq + 1, email |-> email,
                    hashed_password |-> get_password_hash(password)]]

----------------------------------------------------------------------------
(* The requests a client makes of the credential and token part *)

EmptyDict == [k \in {} |-> None]
\* the data dict given to a token function: {"sub": email}, or {}
TokenData == {[sub |-> e] : e \in Emails} \cup {EmptyDict}
Deltas == {timedelta(d) : d \in 0..MaxDelta}

\* tokens made without the server's key
Forged == {Malformed} \cup {jwt_encode([sub |-> e], OtherKey) : e \in Emails}

\* a token a client keeps, with what made it and when
Held(token, kind, delta, at) ==
    [token |-> token, kind |-> kind, delta |-> delta, at |-> at]

Presentable == Forged \cup (IF held = None THEN {} ELSE {held.token})

Response(op, args, out) == [op |-> op, args |-> args, out |-> out]

AuthFrame == UNCHANGED <<contacts, contact_seq>>

CreateUser(email, password) ==
    LET out == create_user(users, user_seq, email, password)
    IN  /\ IF out.status = 200
           THEN users' = users \cup {out.user} /\ user_seq' = user_seq + 1
           ELSE UNCHANGED <<users, user_seq>>
        /\ resp' = Response("create_user",
                            [email |-> email, password |-> password], out)
        /\ UNCHANGED <<now, held>>
        /\ AuthFrame

Login(email, password) ==
    LET out == login_for_access_token(users, email, password, now)
    IN  /\ resp' = Response("login",
                            [email |-> email, password |-> password], out)
        /\ IF out.status = 200
           THEN held' \in {Held(out.body.access_token, "access", None, now),
                           Held(out.body.refresh_token, "refresh",
                                RefreshLifetime, now)}
           ELSE UNCHANGED held
        /\ UNCHANGED <<users, user_seq, now>>
        /\ AuthFrame

\* a direct call of create_access_token(data, expires_delta)
IssueAccessToken(data, expires_delta) ==
    LET token == create_access_token(data, expires_delta, now)
    IN  /\ resp' = Response("create_access_token",
                            [data |-> data, expires_delta |-> expires_delta],
                            [status |-> 200, token |-> token, at |-> now])
        /\ held' = Held(token, "access", expires_delta, now)
        /\ UNCHANGED <<users, user_seq, now>>
        /\ AuthFrame

\* a direct call of create_refresh_token(data, expires_delta)
IssueRefreshToken(data, expires_delta) ==
    LET token == create_refresh_token(data, expires_delta, now)
    IN  /\ resp' = Response("create_refresh_token",
                            [data |-> data, expires_delta |-> expires_delta],
                            [status |-> 200, token |-> token, at |-> now])
        /\ held' = Held(token, "refresh", expires_delta, now)
        /\ UNCHANGED <<users, user_seq, now>>
        /\ AuthFrame

GetCurrentUser(token) ==
    /\ resp' = Response("get_current_user", [token |-> token],
                        get_current_user(users, token, now))
    /\ UNCHANGED <<users, user_seq, now, held>>
    /\ AuthFrame

Refresh(token, strict) ==
    LET out == refresh_token(users, token, now, strict)
    IN  /\ resp' = Response("refresh", [refresh_token |-> token], out)
        /\ IF out.status = 200
           THEN held' \in {held, Held(out.body.access_token, "access", None, now)}
           ELSE UNCHANGED held
        /\ UNCHANGED <<users, user_seq, now>>
        /\ AuthFrame

\* time passes
Tick(t) ==
    /\ t > now
    /\ now' = t
    /\ resp' = Response("tick", None, None)
    /\ UNCHANGED <<users, user_seq, held>>
    /\ AuthFrame

Init ==
    /\ users = {}
    /\ user_seq = 0
    /\ contacts = {}
    /\ contact_seq = 0
    /\ now = 0
    /\ held = None
    /\ resp = Response("start", None, None)

\* registration, login and the use of the tokens a login returns
NextAuth ==
    \/ \E e \in Emails, p \in Passwords : CreateUser(e, p)
    \/ \E e \in Emails, p \in Passwords : Login(e, p)
    \/ \E tk \in Presentable : GetCurrentUser(tk)
    \/ \E tk \in Presentable, strict \in BOOLEAN : Refresh(tk, strict)
    \/ \E t \in ClockValues : Tick(t)

SpecAuth == Init /\ [][NextAuth]_vars

\* the token functions called with every data dict and lifetime, and the use
\* of the tokens they return
NextToken ==
    \/ \E e \in Emails : CreateUser(e, "pw1")
    \/ \E d \in TokenData, x \in Deltas \cup {None} : IssueAccessToken(d, x)
    \/ \E d \in TokenData, x \in Deltas \cup {RefreshLifetime} :
           IssueRefreshToken(d, x)
    \/ \E tk \in Presentable : GetCurrentUser(tk)
    \/ \E tk \in Presentable, strict \in BOOLEAN : Refresh(tk, strict)
    \/ \E t \in ClockValues : Tick(t)

SpecToken == Init /\ [][NextToken]_vars

----------------------------------------------------------------------------
(* The contact repository: src/src/handler.py, src/src/database/models.py *)

\* A str is the sequence of its characters. None in a place that holds a
\* str is NoneStr, a sequence that is no str (its one element is no character)
NoneStr == <<"None">>

\* the columns of table "contacts" other than id, which are the fields of
\* ContactBase
ContactFields == {"first_name", "last_name", "email", "phone_number",
                  "birthday", "additional_info"}

date(y, m, d) == [year |-> y, month |-> m, day |-> d]

\* what a call returns, or the exception it raises
Returned(value) == [returned |-> value]
Raised(exception) == [raised |-> exception]
\* the outcome of a handler that writes: the result and the table after it
Outcome(result, db, seq) == [result |-> result, db |-> db, seq |-> seq]

\* db.query(Contact).filter(Contact.id == contact_id).first()
get_contact(db, contact_id) ==
    IF \E c \in db : c.id = contact_id
    THEN CHOOSE c \in db : c.id = contact_id
    ELSE None

\* the unique=True columns, email and phone_number: would the table hold two
\* rows with the same value in one of them?
ViolatesUnique(db) ==
    \E c1 \in db, c2 \in db :
        /\ c1.id # c2.id
        /\ c1.email = c2.email \/ c1.phone_number = c2.phone_number

\* db.commit(): the new table, or IntegrityError and the table as it was
Commit(result, before, after, seq_before, seq_after) ==
    IF ViolatesUnique(after)
    THEN Outcome(Raised("IntegrityError"), before, seq_before)
    ELSE Outcome(Returned(result), after, seq_after)

\* models.Contact(**contact.model_dump()) and the id the table assigns
NewRow(contact, id) ==
    [k \in DOMAIN contact \cup {"id"} |-> IF k = "id" THEN id ELSE contact[k]]

create_contact(db, seq, contact) ==
    LET db_contact == NewRow(contact, seq + 1)
    IN  Commit(db_contact, db, db \cup {db_contact}, seq, seq + 1)

\* for key, value in contact.model_dump(exclude_unset=True).items():
\*     setattr(db_contact, key, value)
SetAttrs(db_contact, partial) ==
    [k \in DOMAIN db_contact |->
        IF k \in DOMAIN partial THEN partial[k] ELSE db_contact[k]]

\* model_dump() without exclude_unset: a field that was not given is written
\* with its default
update_contact_UnsetWritten(db, seq, contact_id, partial) ==
    LET db_contact == get_contact(db, contact_id)
    IN  IF db_contact = None THEN Outcome(Returned(None), db, seq)
        ELSE LET dumped == [k \in DOMAIN partial \cup {"additional_info"} |->
                               IF k \in DOMAIN partial THEN partial[k]
                               ELSE NoneStr]
                 updated == SetAttrs(db_contact, dumped)
             IN  Commit(updated, db, (db \ {db_contact}) \cup {updated},
                        seq, seq)

update_contact(db, seq, contact_id, partial) ==
    LET db_contact == get_contact(db, contact_id)
    IN  IF db_contact = None THEN Outcome(Returned(None), db, seq)
        ELSE LET updated == SetAttrs(db_contact, partial)
             IN  Commit(updated, db, (db \ {db_contact}) \cup {updated},
                        seq, seq)

\* db.delete without the commit that follows it
delete_contact_NoCommit(db, seq, contact_id) ==
    Outcome(Returned(get_contact(db, contact_id)), db, seq)

delete_contact(db, seq, contact_id) ==
    LET db_contact == get_contact(db, contact_id)
    IN  IF db_contact = None THEN Outcome(Returned(None), db, seq)
        ELSE Outcome(Returned(db_contact), db \ {db_contact}, seq)

\* the router's answer: the row, 404 when the handler returned None, and the
\* server's 500 for an exception no handler catches
RouterResponse(result) ==
    IF "raised" \in DOMAIN result
    THEN [status |-> 500, detail |-> "Internal Server Error",
          exception |-> result.raised]
    ELSE IF result.returned = None
         THEN HTTPException(404, "Contact not found")
    ELSE [status |-> 200, body |-> result.returned]

----------------------------------------------------------------------------
(* Search: src/src/handler.py, search_contacts *)

ToLower ==
    [A |-> "a", B |-> "b", C |-> "c", D |-> "d", E |-> "e", F |-> "f",
     G |-> "g", H |-> "h", I |-> "i", J |-> "j", K |-> "k", L |-> "l",
     M |-> "m", N |-> "n", O |-> "o", P |-> "p", Q |-> "q", R |-> "r",
     S |-> "s", T |-> "t", U |-> "u", V |-> "v", W |-> "w", X |-> "x",
     Y |-> "y", Z |-> "z"]

lower(s) == [i \in 1..Len(s) |-> IF s[i] \in DOMAIN ToLower
                                 THEN ToLower[s[i]] ELSE s[i]]

\* SQL LIKE: % stands for any string, _ for any one character
RECURSIVE Like(_, _)
Like(s, pattern) ==
    IF pattern = <<>> THEN s = <<>>
    ELSE IF Head(pattern) = "%"
         THEN Like(s, Tail(pattern)) \/ (s # <<>> /\ Like(Tail(s), pattern))
    ELSE /\ s # <<>>
         /\ Head(pattern) = "_" \/ Head(pattern) = Head(s)
         /\ Like(Tail(s), Tail(pattern))

\* column.ilike(pattern)
ilike(column, pattern) == Like(lower(column), lower(pattern))

\* f"%{name}%"
Contains(name) == <<"%">> \o name \o <<"%">>

\* "if name:" is false for None and for the empty str
Given(filter) == filter # NoneStr /\ filter # <<>>

search_contacts(db, name, surname, email) ==
    {c \in db :
        /\ Given(name) => ilike(c.first_name, Contains(name))
        /\ Given(surname) => ilike(c.last_name, Contains(surname))
        /\ Given(email) => ilike(c.email, Contains(email))}

----------------------------------------------------------------------------
(* The requests a client makes of the contact repository *)

\* the number of ids the table "contacts" assigns
MaxContacts == 3

John ==
    [first_name |-> <<"J", "o", "h", "n">>,
     last_name |-> <<"D", "o", "e">>,
     email |-> <<"j", "o", "@", "x", ".", "i", "o">>,
     phone_number |-> <<"1", "2", "3">>,
     birthday |-> date(1990, 1, 1),
     additional_info |-> NoneStr]

Jane ==
    [first_name |-> <<"J", "a", "n", "e">>,
     last_name |-> <<"D", "o", "e">>,
     email |-> <<"j", "a", "@", "x", ".", "i", "o">>,
     phone_number |-> <<"0", "9", "8">>,
     birthday |-> date(1991, 2, 2),
     additional_info |-> <<"h", "i">>]

\* the ContactCreate bodies a client sends
ContactInputs == {John, Jane}

\* the fields a ContactUpdate may carry as set: over HTTP the five required
\* ones with or without additional_info; built in code, any of them
RequiredFields == ContactFields \ {"additional_info"}
PartialKeySets ==
    {{}, {"first_name"}, {"email"}, {"phone_number"}, {"additional_info"},
     {"email", "phone_number"}, RequiredFields, ContactFields}
Partials ==
    {[k \in K |-> c[k]] : K \in PartialKeySets, c \in ContactInputs}

ContactIds == 1..MaxContacts

ContactFrame == UNCHANGED <<users, user_seq, now, held>>

CreateContact(contact) ==
    LET out == create_contact(contacts, contact_seq, contact)
    IN  /\ contact_seq < MaxContacts
        /\ contacts' = out.db
        /\ contact_seq' = out.seq
        /\ resp' = Response("create_contact", [contact |-> contact],
                            RouterResponse(out.result))
        /\ ContactFrame

ReadContact(contact_id) ==
    /\ resp' = Response("read_contact", [contact_id |-> contact_id],
                        RouterResponse(Returned(get_contact(contacts,
                                                            contact_id))))
    /\ UNCHANGED <<contacts, contact_seq>>
    /\ ContactFrame

UpdateContact(contact_id, partial) ==
    LET out == update_contact(contacts, contact_seq, contact_id, partial)
    IN  /\ contacts' = out.db
        /\ contact_seq' = out.seq
        /\ resp' = Response("update_contact",
                            [contact_id |-> contact_id, contact |-> partial],
                            RouterResponse(out.result))
        /\ ContactFrame

DeleteContact(contact_id) ==
    LET out == delete_contact(contacts, contact_seq, contact_id)
    IN  /\ contacts' = out.db
        /\ contact_seq' = out.seq
        /\ resp' = Response("delete_contact", [contact_id |-> contact_id],
                            RouterResponse(out.result))
        /\ ContactFrame

NextContacts ==
    \/ \E c \in ContactInputs : CreateContact(c)
    \/ \E id \in ContactIds : ReadContact(id)
    \/ \E id \in ContactIds, partial \in Partials : UpdateContact(id, partial)
    \/ \E id \in ContactIds : DeleteContact(id)

SpecContacts == Init /\ [][NextContacts]_vars

\* the rows a search runs over, and the filters it is given
SearchRows ==
    {[id |-> 1,
      first_name |-> <<"J", "o", "h", "n">>,
      last_name |-> <<"D", "o", "e">>,
      email |-> <<"a", "_", "b", "@", "x", ".", "i", "o">>,
      phone_number |-> <<"1", "2", "3">>,
      birthday |-> date(1990, 1, 1),
      additional_info |-> NoneStr],
     [id |-> 2,
      first_name |-> <<"J", "a", "n", "e">>,
      last_name |-> <<"D", "o", "e">>,
      email |-> <<"a", "x", "b", "@", "x", ".", "i", "o">>,
      phone_number |-> <<"0", "9", "8">>,
      birthday |-> date(1991, 2, 2),
      additional_info |-> NoneStr],
     [id |-> 3,
      first_name |-> <<"j", "o", "a", "n">>,
      last_name |-> <<"R", "o", "e">>,
      email |-> <<"j", "o", "@", "x", ".", "i", "o">>,
      phone_number |-> <<"5", "5", "5">>,
      birthday |-> date(1990, 1, 1),
      additional_info |-> <<"h", "i">>]}

NameFilters ==
    {NoneStr, <<>>, <<"o", "h">>, <<"J", "O">>, <<"z", "z">>, <<"a", "n">>}
SurnameFilters == {NoneStr, <<"d", "o">>, <<"o", "e">>, <<"x">>}
EmailFilters == {NoneStr, <<"@", "X">>, <<"a", "_", "b">>, <<"b", "%", "i">>}

SearchContacts(name, surname, email) ==
    /\ resp' = Response("search_contacts",
                        [name |-> name, surname |-> surname, email |-> email],
                        [status |-> 200,
                         body |-> search_contacts(contacts, name, surname,
                                                  email)])
    /\ UNCHANGED <<contacts, contact_seq>>
    /\ ContactFrame

\* a table of contacts as earlier requests have left it
InitSearch ==
    /\ users = {}
    /\ user_seq = 0
    /\ contacts \in SUBSET SearchRows
    /\ contact_seq = 3
    /\ now = 0
    /\ held = None
    /\ resp = Response("start", None, None)

NextSearch ==
    \E name \in NameFilters, surname \in SurnameFilters,
       email \in EmailFilters :
        SearchContacts(name, surname, email)

SpecSearch == InitSearch /\ [][NextSearch]_vars

----------------------------------------------------------------------------
(* Upcoming birthdays: src/src/handler.py, get_upcoming_birthdays *)

\* timedelta(days=7)
BirthdayWindowDays == 7

IsLeapYear(y) == (y % 4 = 0 /\ y % 100 # 0) \/ y % 400 = 0

DaysInMonth(y, m) ==
    IF m = 2 THEN (IF IsLeapYear(y) THEN 29 ELSE 28)
    ELSE IF m \in {4, 6, 9, 11} THEN 30
    ELSE 31

\* date + timedelta(days=1)
NextDay(d) ==
    IF d.day < DaysInMonth(d.year, d.month)
    THEN date(d.year, d.month, d.day + 1)
    ELSE IF d.month < 12 THEN date(d.year, d.month + 1, 1)
    ELSE date(d.year + 1, 1, 1)

\* date + timedelta(days=n)
RECURSIVE AddDays(_, _)
AddDays(d, n) == IF n = 0 THEN d ELSE AddDays(NextDay(d), n - 1)

\* d1 <= d2, as dates are ordered: by year, then month, then day
DateLE(d1, d2) ==
    \/ d1.year < d2.year
    \/ d1.year = d2.year /\ d1.month < d2.month
    \/ d1.year = d2.year /\ d1.month = d2.month /\ d1.day <= d2.day

\* today is datetime.now().date()
get_upcoming_birthdays(db, today) ==
    LET next_week == AddDays(today, BirthdayWindowDays)
    IN  {c \in db :
            DateLE(today, c.birthday) /\ DateLE(c.birthday, next_week)}

\* the rows the birthday query runs over
BirthdayRows ==
    {NewRow(John, 1),
     NewRow(Jane, 2),
     [id |-> 3,
      first_name |-> <<"A", "n", "n">>,
      last_name |-> <<"R", "o", "e">>,
      email |-> <<"a", "n", "@", "x", ".", "i", "o">>,
      phone_number |-> <<"5", "5", "5">>,
      birthday |-> date(1992, 12, 30),
      additional_info |-> NoneStr],
     [id |-> 4,
      first_name |-> <<"B", "o", "b">>,
      last_name |-> <<"R", "o", "e">>,
      email |-> <<"b", "o", "@", "x", ".", "i", "o">>,
      phone_number |-> <<"7", "7", "7">>,
      birthday |-> date(2026, 1, 3),
      additional_info |-> NoneStr]}

\* the days on which the query is made
Todays ==
    {date(1990, 1, 1), date(1991, 1, 26), date(2025, 12, 28),
     date(2026, 1, 1), date(2026, 1, 4), date(2026, 1, 26),
     date(2026, 2, 3), date(2026, 6, 1)}

GetUpcomingBirthdays(today) ==
    /\ resp' = Response("get_upcoming_birthdays", [today |-> today],
                        [status |-> 200,
                         body |-> get_upcoming_birthdays(contacts, today)])
    /\ UNCHANGED <<contacts, contact_seq>>
    /\ ContactFrame

\* a table of contacts as earlier requests have left it
InitBirthdays ==
    /\ users = {}
    /\ user_seq = 0
    /\ contacts \in SUBSET BirthdayRows
    /\ contact_seq = 4
    /\ now = 0
    /\ held = None
    /\ resp = Response("start", None, None)

NextBirthdays == \E today \in Todays : GetUpcomingBirthdays(today)

SpecBirthdays == InitBirthdays /\ [][NextBirthdays]_vars

----------------------------------------------------------------------------
(* Email verification: src/src/handler.py, send_verification_email;
   src/src/router.py, verify_email *)

\* the columns of the users table
UserColumns == {"id", "email", "hashed_password"}

\* obj.name = value on a loaded instance
SetAttr(obj, name, value) ==
    [k \in DOMAIN obj \cup {name} |-> IF k = name THEN value ELSE obj[k]]

\* db.commit() with one loaded instance in the session: the row of the
\* instance is written from its mapped columns; an attribute that is no
\* column of the table is not part of the row
CommitUser(db, instance) ==
    {u \in db : u.id # instance.id}
        \cup {[k \in UserColumns |-> instance[k]]}

\* the token of the verification link: {"sub": email}, with no exp claim
verification_token(email) == jwt_encode([sub |-> email], SECRET_KEY)

\* the outcome of verify_email, and the users table after it. payload.get
\* gives None for a missing sub, and no row has the email None
verify_email(db, token, t, strict) ==
    LET decoded == pyjwt_decode(token, SECRET_KEY, t, strict)
    IN  IF ~decoded.ok
        THEN [result |-> HTTPException(400, "Invalid token"), db |-> db]
        ELSE LET user == IF "sub" \in DOMAIN decoded.payload
                         THEN get_user_by_email(db, decoded.payload.sub)
                         ELSE None
             IN  IF user = None
                 THEN [result |-> [status |-> 200, body |-> None], db |-> db]
                 ELSE [result |->
                           [status |-> 200,
                            body |-> [msg |-> "Email successfully verified"]],
                       db |-> CommitUser(db, SetAttr(user, "is_verified", TRUE))]

\* the mail is sent to any address given; its reader holds the token
SendVerificationEmail(email) ==
    LET token == verification_token(email)
    IN  /\ resp' = Response("send_verification_email", [email |-> email],
                            [status |-> 200, token |-> token, at |-> now])
        /\ held' = Held(token, "verification", None, now)
        /\ UNCHANGED <<users, user_seq, now>>
        /\ AuthFrame

\* a direct call of verify_email(token)
VerifyEmail(token, strict) ==
    LET out == verify_email(users, token, now, strict)
    IN  /\ resp' = Response("verify_email", [token |-> token], out.result)
        /\ users' = out.db
        /\ UNCHANGED <<user_seq, now, held>>
        /\ AuthFrame

\* registration, login, the verification mail, and the use of the tokens
\* they give out
NextVerify ==
    \/ \E e \in Emails : CreateUser(e, "pw1")
    \/ \E e \in Emails : Login(e, "pw1")
    \/ \E e \in Emails : SendVerificationEmail(e)
    \/ \E tk \in Presentable, strict \in BOOLEAN : VerifyEmail(tk, strict)
    \/ \E tk \in Presentable : GetCurrentUser(tk)
    \/ \E tk \in Presentable, strict \in BOOLEAN : Refresh(tk, strict)
    \/ \E t \in ClockValues : Tick(t)

SpecVerify == Init /\ [][NextVerify]_vars

----------------------------------------------------------------------------
(* Dispatch of a request to an endpoint: src/src/router.py, the order of the
   @router decorators *)

\* a path under the prefix /contacts is its one segment, a str; a route's
\* path is a literal segment or one parameter
Literal(segment) == [literal |-> segment]
Param(name) == [param |-> name]

Route(method, path, endpoint) ==
    [method |-> method, path |-> path, endpoint |-> endpoint]

\* the routes in the order in which the decorators register them
routes ==
    <<Route("POST", Literal(<<>>), "create_contact"),
      Route("GET", Literal(<<>>), "read_contacts"),
      Route("GET", Param("contact_id"), "read_contact"),
      Route("PUT", Param("contact_id"), "update_contact"),
      Route("DELETE", Param("contact_id"), "delete_contact"),
      Route("GET", Literal(<<"s", "e", "a", "r", "c", "h">>),
            "search_contacts"),
      Route("GET", Literal(<<"b", "i", "r", "t", "h", "d", "a", "y", "s">>),
            "get_upcoming_birthdays"),
      Route("POST", Literal(<<"t", "o", "k", "e", "n">>),
            "login_for_access_token"),
      Route("POST", Literal(<<"r", "e", "f", "r", "e", "s", "h">>),
            "refresh_token"),
      Route("GET", Literal(<<"v", "e", "r", "i", "f", "y">>), "verify_email"),
      Route("PUT", Literal(<<"a", "v", "a", "t", "a", "r">>),
            "update_avatar")>>

\* a path parameter stands for any non-empty segment: its declared type is
\* not part of the match
PathMatches(path, segment) ==
    IF "param" \in DOMAIN path THEN segment # <<>>
    ELSE segment = path.literal

\* the router takes the first route whose path and method both match; with
\* none, the first whose path matches answers 405; with none, 404
Dispatch(method, segment) ==
    LET partial == {i \in DOMAIN routes : PathMatches(routes[i].path, segment)}
        full == {i \in partial : routes[i].method = method}
        First(S) == CHOOSE i \in S : \A j \in S : i <= j
    IN  IF full # {}
        THEN [status |-> 200, endpoint |-> routes[First(full)].endpoint]
        ELSE IF partial # {}
             THEN [status |-> 405, endpoint |-> routes[First(partial)].endpoint]
        ELSE [status |-> 404, endpoint |-> "none"]

DigitValue ==
    [c \in {"0", "1", "2", "3", "4", "5", "6", "7", "8", "9"} |->
        CASE c = "0" -> 0 [] c = "1" -> 1 [] c = "2" -> 2 [] c = "3" -> 3
          [] c = "4" -> 4 [] c = "5" -> 5 [] c = "6" -> 6 [] c = "7" -> 7
          [] c = "8" -> 8 [] c = "9" -> 9]

\* the segment is the decimal writing of an int
IsInt(segment) ==
    segment # <<>> /\ \A i \in 1..Len(segment) : segment[i] \in DOMAIN DigitValue

RECURSIVE IntOf(_)
IntOf(segment) ==
    IF segment = <<>> THEN 0
    ELSE 10 * IntOf(SubSeq(segment, 1, Len(segment) - 1))
             + DigitValue[segment[Len(segment)]]

\* contact_id: int of a path that does not hold an int
validation_error == [status |-> 422, detail |-> "int_parsing"]

\* the answer to GET /contacts/<segment>?name=<name>, with the endpoint that
\* gave it; today is the day of the request
http_get(db, segment, name, today) ==
    LET found == Dispatch("GET", segment)
        answer ==
            IF found.status # 200
            THEN [status |-> found.status, detail |-> "not dispatched"]
            ELSE IF found.endpoint = "read_contact"
                 THEN IF IsInt(segment)
                      THEN RouterResponse(
                               Returned(get_contact(db, IntOf(segment))))
                      ELSE validation_error
            ELSE IF found.endpoint = "search_contacts"
                 THEN [status |-> 200,
                       body |-> search_contacts(db, name, NoneStr, NoneStr)]
            ELSE IF found.endpoint = "get_upcoming_birthdays"
                 THEN [status |-> 200,
                       body |-> get_upcoming_birthdays(db, today)]
            ELSE [status |-> 422, detail |-> "missing"]
    IN  [endpoint |-> found.endpoint, answer |-> answer]

\* the last segment of the paths a client asks for
SearchPath == <<"s", "e", "a", "r", "c", "h">>
Segments ==
    {SearchPath, <<"b", "i", "r", "t", "h", "d", "a", "y", "s">>,
     <<"v", "e", "r", "i", "f", "y">>, <<"1">>, <<"2">>, <<"1", "2">>}

HttpGet(segment, name, today) ==
    LET out == http_get(contacts, segment, name, today)
    IN  /\ resp' = Response("GET", [path |-> segment, name |-> name],
                            [endpoint |-> out.endpoint,
                             status |-> out.answer.status,
                             answer |-> out.answer])
        /\ UNCHANGED <<contacts, contact_seq>>
        /\ ContactFrame

NextHttp ==
    \E segment \in Segments, name \in NameFilters, today \in Todays :
        HttpGet(segment, name, today)

SpecHttp == InitSearch /\ [][NextHttp]_vars

\* every request of the service
Next ==
    \/ NextAuth \/ NextToken \/ NextContacts \/ NextSearch
    \/ NextBirthdays \/ NextVerify \/ NextHttp

Spec == Init /\ [][Next]_vars

----------------------------------------------------------------------------
(* Claims about the credential and token part *)

UserWithEmail(email) == \E u \in users : u.email = email

\* the token is a JWT signed with the server's key
SignedByServer(token) ==
    "payload" \in DOMAIN token /\ token.sig = SECRET_KEY

\* C1: get_current_user returns the User whose email is the token's sub if
\* and only if the token is well-formed, signed with the current secret, not
\* expired, carries a sub claim and a User with that email exists; in every
\* other case it raises the 401 credentials failure and returns no User.
C1_GetCurrentUserIff ==
    resp.op = "get_current_user" =>
        LET token == resp.args.token
            admitted ==
                /\ SignedByServer(token)
                /\ "exp" \in DOMAIN token.payload => token.payload.exp >= now
                /\ "sub" \in DOMAIN token.payload
                /\ UserWithEmail(token.payload.sub)
        IN  IF admitted
            THEN /\ resp.out.status = 200
                 /\ resp.out.user \in users
                 /\ resp.out.user.email = token.payload.sub
            ELSE /\ resp.out = HTTPException(401, "Could not validate credentials")
                 /\ "user" \notin DOMAIN resp.out

\* a validly signed, unexpired token of an existing User has been admitted
C1_Witness ==
    /\ resp.op = "get_current_user"
    /\ resp.out.status = 200
    /\ SignedByServer(resp.args.token)
    /\ resp.args.token.payload.exp >= now
    /\ UserWithEmail(resp.args.token.payload.sub)

\* the password verifies against the hash stored for the email
PasswordMatches(email, password) ==
    \E u \in users :
        u.email = email /\ u.hashed_password = get_password_hash(password)

\* C2: authenticate_user and login fail in exactly the same way (same
\* outcome, same status, same detail) when no User has the email as when the
\* User exists and the password does not verify, and return the User (and
\* tokens) only when the email exists and the password verifies.
C2_LoginIndistinguishable ==
    /\ resp.op = "login" =>
           IF PasswordMatches(resp.args.email, resp.args.password)
           THEN /\ resp.out.status = 200
                /\ resp.out.body.access_token.payload.sub = resp.args.email
           ELSE resp.out = HTTPException(401, "Incorrect email or password")
    /\ \A e \in Emails, p \in Passwords :
           LET user == authenticate_user(users, e, p)
           IN  IF PasswordMatches(e, p)
               THEN user \in users /\ user.email = e
               ELSE user = None
    /\ \A e1 \in Emails, e2 \in Emails, p1 \in Passwords, p2 \in Passwords :
           (~UserWithEmail(e1) /\ UserWithEmail(e2) /\ ~PasswordMatches(e2, p2))
           => /\ authenticate_user(users, e1, p1)
                  = authenticate_user(users, e2, p2)
              /\ login_for_access_token(users, e1, p1, now)
                  = login_for_access_token(users, e2, p2, now)

\* a login with the wrong password for an existing User has failed while
\* another email has no User
C2_Witness ==
    /\ resp.op = "login"
    /\ resp.out.status = 401
    /\ UserWithEmail(resp.args.email)
    /\ \E e \in Emails : ~UserWithEmail(e)

\* the held token is the access token a login or a refresh returned
HeldAccessToken ==
    held # None /\ held.kind = "access" /\ held.delta = None

\* C3: the access token issued at t for the email of an existing User is
\* admitted, with that User, at every instant up to t + 15 minutes and
\* rejected at every later instant; a token signed with another secret than
\* the one it is verified with is rejected.  (Instants are whole seconds.)
C3_AccessTokenLifetime ==
    resp.op = "get_current_user" =>
        /\ (HeldAccessToken /\ resp.args.token = held.token) =>
               IF now <= held.at + ACCESS_TOKEN_EXPIRE_MINUTES * SecondsPerMinute
               THEN /\ resp.out.status = 200
                    /\ resp.out.user.email = held.token.payload.sub
               ELSE resp.out.status = 401
        /\ ("payload" \in DOMAIN resp.args.token
                /\ resp.args.token.sig # SECRET_KEY)
               => resp.out.status = 401

\* an access token is rejected one second after its 15 minutes
C3_Witness ==
    /\ resp.op = "get_current_user"
    /\ HeldAccessToken
    /\ resp.args.token = held.token
    /\ now = held.at + ACCESS_TOKEN_EXPIRE_MINUTES * SecondsPerMinute + 1
    /\ resp.out.status = 401

\* C4: a token issued with a requested lifetime d expires exactly at the
\* issue instant + d for every d >= 0, d = 0 included, so that a token
\* issued with exp = now is rejected one second later.
C4_ExpiryIsIssuePlusDelta ==
    /\ (resp.op \in {"create_access_token", "create_refresh_token"}
            /\ resp.args.expires_delta # None)
           => resp.out.token.payload.exp
                  = resp.out.at + resp.args.expires_delta.seconds
    /\ (resp.op = "get_current_user" /\ held # None
            /\ resp.args.token = held.token
            /\ held.delta = timedelta(0) /\ now = held.at + 1)
           => resp.out.status = 401

\* C5: refresh returns a freshly minted access token for the refresh
\* token's sub, and the very refresh token it was given, when that token is
\* validly signed, unexpired, carries a sub and its subject exists; in every
\* other case it fails with the 401 failure and returns no token.  (At the
\* very second of exp the installed PyJWT decides, and either outcome is the
\* one of an unexpired or of an expired token.)
C5_Refresh ==
    resp.op = "refresh" =>
        LET token == resp.args.refresh_token
            minted ==
                /\ resp.out.status = 200
                /\ resp.out.body.access_token =
                       jwt_encode(
                           [sub |-> token.payload.sub,
                            exp |-> now + ACCESS_TOKEN_EXPIRE_MINUTES
                                              * SecondsPerMinute],
                           SECRET_KEY)
                /\ resp.out.body.refresh_token = token
            refused ==
                /\ resp.out = HTTPException(401, "Invalid refresh token")
                /\ "body" \notin DOMAIN resp.out
            subject ==
                /\ SignedByServer(token)
                /\ "sub" \in DOMAIN token.payload
                /\ UserWithEmail(token.payload.sub)
        IN  IF ~subject THEN refused
            ELSE IF "exp" \notin DOMAIN token.payload \/ token.payload.exp > now
                 THEN minted
            ELSE IF token.payload.exp < now THEN refused
            ELSE minted \/ refused

\* a refresh token of an existing User has been exchanged before its expiry
C5_Witness ==
    /\ resp.op = "refresh"
    /\ resp.out.status = 200
    /\ held # None /\ held.kind = "refresh"
    /\ resp.args.refresh_token = held.token
    /\ resp.out.body.refresh_token = held.token
    /\ held.token.payload.exp > now

\* C6: create_user raises the 409 Conflict and leaves the user store
\* unchanged whenever a User with the email exists; otherwise it inserts
\* exactly one User with that email and the hash of the password; so no two
\* Users ever share an email.
C6_CreateUser ==
    /\ [](\A u1 \in users, u2 \in users : u1.email = u2.email => u1 = u2)
    /\ [][resp'.op = "create_user" =>
            IF UserWithEmail(resp'.args.email)
            THEN /\ resp'.out = HTTPException(409, "Email already registered")
                 /\ users' = users
            ELSE /\ resp'.out.status = 200
                 /\ resp'.out.user \notin users
                 /\ users' = users \cup {resp'.out.user}
                 /\ resp'.out.user.email = resp'.args.email
                 /\ DOMAIN resp'.out.user.hashed_password = {"bcrypt"}
                 /\ verify_password(resp'.args.password,
                                    resp'.out.user.hashed_password)
                 /\ \A p \in Passwords \ {resp'.args.password} :
                        ~verify_password(p, resp'.out.user.hashed_password)
       ]_vars

\* a registration has been refused for an email that is taken
C6_Witness ==
    /\ resp.op = "create_user"
    /\ resp.out.status = 409
    /\ UserWithEmail(resp.args.email)

----------------------------------------------------------------------------
(* Claims about the contact repository *)

\* the row of the table with this id, which the caller knows to exist
Row(db, contact_id) == CHOOSE c \in db : c.id = contact_id

HasRow(db, contact_id) == \E c \in db : c.id = contact_id

\* a live Contact holds the email or the phone number of these fields
Taken(db, fields) ==
    \E c \in db :
        c.email = fields.email \/ c.phone_number = fields.phone_number

\* C7: create for a Contact whose email and phone number no live Contact
\* holds returns the persisted Contact, with an id no other Contact holds
\* and every field echoed; a create whose email or phone number is held by a
\* live Contact fails with the typed Conflict outcome, not a crash, and
\* leaves the set of Contacts unchanged.
C7_CreateContact ==
    [][resp'.op = "create_contact" =>
        LET fields == resp'.args.contact
        IN  IF ~Taken(contacts, fields)
            THEN /\ resp'.out.status = 200
                 /\ \A c \in contacts : c.id # resp'.out.body.id
                 /\ \A k \in ContactFields : resp'.out.body[k] = fields[k]
                 /\ contacts' = contacts \cup {resp'.out.body}
            ELSE /\ resp'.out.status = 409
                 /\ contacts' = contacts
     ]_vars

\* the update would give the Contact an email or a phone number that another
\* Contact holds
Collides(db, contact_id, partial) ==
    \E c \in db :
        /\ c.id # contact_id
        /\ \/ "email" \in DOMAIN partial /\ c.email = partial.email
           \/ "phone_number" \in DOMAIN partial
                  /\ c.phone_number = partial.phone_number

\* the Contact has exactly the fields of partial overwritten, and nothing
\* else in the table has changed
Overwritten(before, after, contact_id, partial) ==
    /\ HasRow(after, contact_id)
    /\ \A k \in DOMAIN partial : Row(after, contact_id)[k] = partial[k]
    /\ \A k \in (ContactFields \cup {"id"}) \ DOMAIN partial :
           Row(after, contact_id)[k] = Row(before, contact_id)[k]
    /\ after \ {Row(after, contact_id)} = before \ {Row(before, contact_id)}

C9_DeleteContact ==
    [][resp'.op = "delete_contact" =>
        LET id == resp'.args.contact_id
        IN  IF HasRow(contacts, id)
            THEN /\ resp'.out = [status |-> 200, body |-> Row(contacts, id)]
                 /\ contacts' = contacts \ {Row(contacts, id)}
                 /\ get_contact(contacts', id) = None
                 /\ RouterResponse(Returned(get_contact(contacts', id)))
                        = HTTPException(404, "Contact not found")
            ELSE /\ resp'.out = HTTPException(404, "Contact not found")
                 /\ contacts' = contacts
     ]_vars

\* a Contact has been deleted and another one is left
C9_Witness ==
    /\ resp.op = "delete_contact"
    /\ resp.out.status = 200
    /\ ~HasRow(contacts, resp.args.contact_id)
    /\ Cardinality(contacts) = 1

\* filter is a substring of field, letter case apart
IsSubstring(filter, field) ==
    \E i \in 1..(Len(field) + 1) :
        /\ i + Len(filter) - 1 <= Len(field)
        /\ SubSeq(lower(field), i, i + Len(filter) - 1) = lower(filter)

\* C10: search returns exactly the Contacts for which every supplied filter
\* is a case-insensitive substring of its field (name of first name, surname
\* of last name, email of email), the filters combined with AND; an omitted
\* filter constrains nothing, and with no filter the result is all Contacts.
C10_SearchIsSubstringMatch ==
    resp.op = "search_contacts" =>
        resp.out.body =
            {c \in contacts :
                /\ resp.args.name # NoneStr
                       => IsSubstring(resp.args.name, c.first_name)
                /\ resp.args.surname # NoneStr
                       => IsSubstring(resp.args.surname, c.last_name)
                /\ resp.args.email # NoneStr
                       => IsSubstring(resp.args.email, c.email)}

\* C11: upcoming_birthdays(today) returns exactly the Contacts whose
\* birthday's month and day fall within the inclusive 7-day window that
\* starts at today, whatever the year of birth.
C11_BirthdaysRecurAnnually ==
    resp.op = "get_upcoming_birthdays" =>
        resp.out.body =
            {c \in contacts :
                \E k \in 0..BirthdayWindowDays :
                    /\ AddDays(resp.args.today, k).month = c.birthday.month
                    /\ AddDays(resp.args.today, k).day = c.birthday.day}


----------------------------------------------------------------------------
(* Claims about email verification *)

\* the stored verification flag of the User with this email is true
IsVerified(db, email) ==
    \E u \in db :
        /\ u.email = email
        /\ "is_verified" \in DOMAIN u
        /\ u.is_verified = TRUE

VerifySucceeded(r) ==
    /\ r.op = "verify_email"
    /\ r.out = [status |-> 200,
                body |-> [msg |-> "Email successfully verified"]]

\* C12: verify_email is idempotent and irreversible. After every successful
\* call for an existing User e, the first and every later one, the stored
\* verification flag of e is true, and no step sets a true flag back to false.
C12_VerifiedOnceAndForAll ==
    [][/\ VerifySucceeded(resp') =>
              IsVerified(users', resp'.args.token.payload.sub)
       /\ \A e \in Emails : IsVerified(users, e) => IsVerified(users', e)]_vars


----------------------------------------------------------------------------
(* Claims about the dispatch of requests *)

\* C13: GET /contacts/search?name=X is dispatched to the search operation and
\* answered with status 200 and a list of Contacts, the Contacts that match
\* X, for every filter value X.
C13_SearchRouteReachable ==
    (resp.op = "GET" /\ resp.args.path = SearchPath) =>
        /\ resp.out.endpoint = "search_contacts"
        /\ resp.out.status = 200
        /\ resp.out.answer.body =
               search_contacts(contacts, resp.args.name, NoneStr, NoneStr)


\* C14: get_current_user admits only tokens made by create_access_token. The
\* refresh token of a login and the token of a verification mail are never
\* admitted, and every admitted token was issued at most 15 minutes before.
C14_OnlyAccessTokensAdmitted ==
    (resp.op = "get_current_user" /\ resp.out.status = 200) =>
        /\ held # None
        /\ resp.args.token = held.token
        /\ held.kind = "access"
        /\ now <= held.at + ACCESS_TOKEN_EXPIRE_MINUTES * SecondsPerMinute

====
